---- MODULE Spec2Model ----
(***************************************************************************)
(* Bellman derivation playground: the rewrite-rule engine over LaTeX       *)
(* strings, the step history kept by the App component, and the dense      *)
(* linear-algebra kernel (matSub, solveLinearSystem).                      *)
(*                                                                         *)
(* Strings are sequences of one-character strings.  String positions are   *)
(* 0-based in the operators that carry the names of the JavaScript string  *)
(* methods (indexOf, lastIndexOf, slice) and 1-based inside the matcher.   *)
(***************************************************************************)
EXTENDS Integers, Sequences, FiniteSets, TLC

\* ------------------------------------------------------------------------
\* JavaScript string methods
\* ------------------------------------------------------------------------

\* The characters \s matches and trim() removes, among those the model uses.
Whitespace == {" ", "\t", "\n", "\r"}

\* The characters "." does not match.
LineTerminators == {"\n", "\r"}

SetMin(S) == CHOOSE x \in S : \A y \in S : x <= y

SetMax(S) == CHOOSE x \in S : \A y \in S : x >= y

\* The element of a singleton.  {e(x) : x \in {v}} names the value of v by x,
\* so that e may use it any number of times and v is still evaluated once.
Value(S) == CHOOSE x \in S : TRUE

\* s.startsWith(sub, i): sub occurs in s at 0-based position i.
OccursAt(s, sub, i) ==
    /\ i >= 0
    /\ i + Len(sub) <= Len(s)
    /\ \A k \in 1..Len(sub) : s[i + k] = sub[k]

includes(str, search) ==
    \E s \in {str}, sub \in {search} : \E i \in 0..(Len(s) - Len(sub)) : OccursAt(s, sub, i)

\* -1 when S is empty.
MinOrMinusOne(S) == Value({ IF hits = {} THEN -1 ELSE SetMin(hits) : hits \in {S} })

MaxOrMinusOne(S) == Value({ IF hits = {} THEN -1 ELSE SetMax(hits) : hits \in {S} })

indexOf(str, search, position) ==
    Value({ MinOrMinusOne({i \in from..(Len(s) - Len(sub)) : OccursAt(s, sub, i)})
            : s \in {str}, sub \in {search}, from \in {position} })

lastIndexOf(str, search) ==
    Value({ MaxOrMinusOne({i \in 0..(Len(s) - Len(sub)) : OccursAt(s, sub, i)})
            : s \in {str}, sub \in {search} })

\* s.slice(a, b) for 0 <= a, 0 <= b.
slice(str, a, b) ==
    Value({ SubSeq(s, a + 1, IF e > Len(s) THEN Len(s) ELSE e) : s \in {str}, e \in {b} })

\* The text of s between its first and last characters of keep.
Between(s, keep) == IF keep = {} THEN <<>> ELSE SubSeq(s, SetMin(keep), SetMax(keep))

trim(str) ==
    Value({ Value({ Between(s, keep) : keep \in {{i \in 1..Len(s) : s[i] \notin Whitespace}} })
            : s \in {str} })

\* ------------------------------------------------------------------------
\* Regular expressions: the subset of the JavaScript syntax the rules use,
\* matched by backtracking (greedy quantifiers, alternatives left to right).
\* ------------------------------------------------------------------------

Node(t, w, s, r, p) == [t |-> t, w |-> w, s |-> s, r |-> r, p |-> p]

Lit(w)  == Node("lit", w, {}, <<>>, 0)

Cls(S)  == Node("cls", <<>>, S, <<>>, 0)

Ws      == Node("cls", <<>>, Whitespace, <<>>, 0)

Dot     == Node("any", <<>>, {}, <<>>, 0)

Bol     == Node("bol", <<>>, {}, <<>>, 0)

Eol     == Node("eol", <<>>, {}, <<>>, 0)

Star(n) == Node("star", <<>>, {}, <<n>>, 0)

Plus(n) == Node("plus", <<>>, {}, <<n>>, 0)

Opt(n)  == Node("opt", <<>>, {}, <<n>>, 0)

Cat(ns) == Node("cat", <<>>, {}, ns, 0)

Alt(ns) == Node("alt", <<>>, {}, ns, 0)

\* The first capturing group of a pattern (the only one whose text any rule reads).
Cap(n)  == Node("cap", <<>>, {}, <<n>>, 0)

\* Any later capturing group.
Grp(n)  == Node("grp", <<>>, {}, <<n>>, 0)

NoCapture == <<0, 0>>

\* A way of matching: end is the position after the matched text (1-based),
\* cap the span <<from, to>> (to exclusive) of the first capturing group.
Way(e, c) == [end |-> e, cap |-> c]

\* Whether the one-character pattern n matches the character c.  Every
\* quantifier of the catalog's patterns applies to such a pattern.
MatchesChar(n, c) ==
    CASE n.t = "lit" -> Len(n.w) = 1 /\ c = n.w[1]
      [] n.t = "cls" -> c \in n.s
      [] n.t = "any" -> c \notin LineTerminators

\* The position after the longest run of characters matching n that starts at i.
RunEnd(n, s, i) ==
    SetMin({j \in i..(Len(s) + 1) : j = Len(s) + 1 \/ ~MatchesChar(n, s[j])})

\* The ways of repeating a one-character pattern from lo - 1 up to hi - 1
\* characters further, the longest first (quantifiers are greedy).
Longest(lo, hi, cap) == [k \in 1..(hi - lo + 1) |-> Way(hi - k + 1, cap)]

\* Ways(n, s, from): every way the pattern n matches s from the way `from`
\* on, in the order in which a backtracking engine tries them: a greedy
\* quantifier gives back one repetition at a time, alternatives are tried
\* left to right.  The engine's match is the first way.
\* WaysOfSeq: the same for the patterns ns[lo..hi] one after the other;
\* WaysOfEach: for each of the ways starts[a..b] in turn; WaysOfAny: for
\* the alternatives ns[lo..hi].
RECURSIVE Ways(_, _, _)
RECURSIVE WaysOfSeq(_, _, _, _, _)
RECURSIVE WaysOfEach(_, _, _, _, _, _, _)
RECURSIVE WaysOfAny(_, _, _, _, _)

Ways(pattern, str, from) ==
    Value({
      CASE n.t = "lit" ->
             IF OccursAt(s, n.w, i - 1) THEN <<Way(i + Len(n.w), cap)>> ELSE <<>>
        [] n.t \in {"cls", "any"} ->
             IF i <= Len(s) /\ MatchesChar(n, s[i]) THEN <<Way(i + 1, cap)>> ELSE <<>>
        [] n.t = "bol" -> IF i = 1 THEN <<Way(i, cap)>> ELSE <<>>
        [] n.t = "eol" -> IF i = Len(s) + 1 THEN <<Way(i, cap)>> ELSE <<>>
        [] n.t \in {"cat", "grp"} -> WaysOfSeq(n.r, 1, Len(n.r), s, Way(i, cap))
        [] n.t = "cap" ->
             Value({ [k \in 1..Len(inner) |-> Way(inner[k].end, <<i, inner[k].end>>)]
                     : inner \in {WaysOfSeq(n.r, 1, Len(n.r), s, Way(i, cap))} })
        [] n.t = "alt" -> WaysOfAny(n.r, 1, Len(n.r), s, Way(i, cap))
        [] n.t = "star" -> Longest(i, RunEnd(n.r[1], s, i), cap)
        [] n.t = "plus" -> Longest(i + 1, RunEnd(n.r[1], s, i), cap)
        [] n.t = "opt"  -> Longest(i, IF RunEnd(n.r[1], s, i) > i THEN i + 1 ELSE i, cap)
      : n \in {pattern}, s \in {str}, i \in {from.end}, cap \in {from.cap} })

WaysOfSeq(patterns, first, last, str, from) ==
    Value({
      IF lo > hi THEN <<w>>
      ELSE IF lo = hi THEN Ways(ns[lo], s, w)
      ELSE Value({ WaysOfEach(ns, mid + 1, hi, s, starts, 1, Len(starts))
                   : starts \in {WaysOfSeq(ns, lo, mid, s, w)} })
      : ns \in {patterns}, lo \in {first}, hi \in {last}, mid \in {(first + last) \div 2},
        s \in {str}, w \in {from} })

WaysOfEach(ns, lo, hi, s, starts, a, b) ==
    IF a > b THEN <<>>
    ELSE IF a = b THEN WaysOfSeq(ns, lo, hi, s, starts[a])
    ELSE WaysOfEach(ns, lo, hi, s, starts, a, (a + b) \div 2)
         \o WaysOfEach(ns, lo, hi, s, starts, (a + b) \div 2 + 1, b)

WaysOfAny(ns, lo, hi, s, w) ==
    IF lo > hi THEN <<>>
    ELSE IF lo = hi THEN Ways(ns[lo], s, w)
    ELSE WaysOfAny(ns, lo, (lo + hi) \div 2, s, w)
         \o WaysOfAny(ns, (lo + hi) \div 2 + 1, hi, s, w)

\* re.exec(s) searching from position from (1-based): the leftmost match.
\* index and end are 1-based, end exclusive; group is the text of the first
\* capturing group, hasGroup whether the pattern has one that took part.
NotFound == [found |-> FALSE, index |-> 0, end |-> 0, hasGroup |-> FALSE, group |-> <<>>]

Found(s, p, m) ==
    [found |-> TRUE, index |-> p, end |-> m.end, hasGroup |-> m.cap # NoCapture,
     group |-> IF m.cap = NoCapture THEN <<>> ELSE SubSeq(s, m.cap[1], m.cap[2] - 1)]

exec(regexp, str, position) ==
    Value({ Value({ IF starts = {} THEN NotFound
                    ELSE Value({ Found(s, p, Ways(re, s, Way(p, NoCapture))[1])
                                 : p \in {SetMin(starts)} })
                    : starts \in {{p \in from..(Len(s) + 1) :
                                        Ways(re, s, Way(p, NoCapture)) # <<>>}} })
            : re \in {regexp}, s \in {str}, from \in {position} })

\* re.test(s) for a pattern freshly created by a regex literal (lastIndex 0).
test(re, s) == exec(re, s, 1).found

\* s.replace(re, rep) for a pattern with the g flag and a replacement text
\* that holds no "$" pattern.
RECURSIVE replaceFrom(_, _, _, _)
replaceFrom(regexp, str, replacement, position) ==
    Value({ Value({ IF ~m.found THEN SubSeq(s, from, Len(s))
                    ELSE IF m.end > m.index
                    THEN SubSeq(s, from, m.index - 1) \o rep \o replaceFrom(re, s, rep, m.end)
                    ELSE SubSeq(s, from, m.index - 1) \o rep
                         \o (IF m.index <= Len(s)
                             THEN <<s[m.index]>> \o replaceFrom(re, s, rep, m.index + 1)
                             ELSE <<>>)
                    : m \in {exec(re, s, from)} })
            : re \in {regexp}, s \in {str}, rep \in {replacement}, from \in {position} })

replace(re, s, rep) == replaceFrom(re, s, rep, 1)

\* ------------------------------------------------------------------------
\* utils/latex.ts and the rule catalog (rules/mrpBellmanRules.ts)
\* ------------------------------------------------------------------------

\* Turn double backslashes into single backslashes.
canonicalizeLatex(s) == replace(Lit(<<"\\","\\">>), s, <<"\\">>)

normalize(s) == trim(replace(Plus(Ws), s, <<" ">>))

\* A call that returns v, and a call that throws an Error with message msg.
Return(v)  == [ok |-> TRUE, val |-> v, err |-> ""]

Throw(msg) == [ok |-> FALSE, val |-> <<>>, err |-> msg]

defValue_appliesTo(latex) ==
    test(Cat(<<Lit(<<"v">>), Star(Ws), Lit(<<"(">>), Star(Ws), Lit(<<"s">>), Star(Ws),
        Lit(<<")">>)>>), latex) \/ test(Cat(<<Lit(<<"v","_">>), Star(Ws), Lit(<<"\\","p","i">>),
        Star(Ws), Lit(<<"(">>), Star(Ws), Lit(<<"s">>), Star(Ws), Lit(<<")">>)>>), latex)

defValue_transform(latex) ==
    LET a    == replace(Cat(<<Lit(<<"v","_">>), Star(Ws), Lit(<<"\\","p","i">>), Star(Ws),
        Lit(<<"(">>), Star(Ws), Lit(<<"s">>), Star(Ws), Lit(<<")">>)>>), latex, <<"\\","\\","m",
        "a","t","h","b","b","{","E","}","[","G","_","t","\\","\\","m","i","d"," ","S","_","t",
        "=","s","]">>)
        next == replace(Cat(<<Lit(<<"v">>), Star(Ws), Lit(<<"(">>), Star(Ws), Lit(<<"s">>),
            Star(Ws), Lit(<<")">>)>>), a, <<"\\","\\","m","a","t","h","b","b","{","E","}","[",
            "G","_","t","\\","\\","m","i","d"," ","S","_","t","=","s","]">>)
    IN  Return(normalize(next))

defReturn_appliesTo(latex) ==
    includes(latex, <<"G","_","t">>) /\ ~includes(latex, <<"\\","\\","s","u","m","_","{",
        "k","=","0","}","^","{","\\","i","n","f","t","y","}">>)

defReturn_transform(latex) ==
    LET next == replace(Lit(<<"G","_","t">>), latex, <<"\\","\\","s","u","m","_","{","k",
        "=","0","}","^","{","\\","\\","i","n","f","t","y","}"," ","\\","\\","g","a","m","m","a",
        "^","k"," ","R","_","{","t","+","1","+","k","}">>)
    IN  Return(normalize(next))

unrollReturn_appliesTo(latex) ==
    includes(latex, <<"\\","\\","s","u","m","_","{","k","=","0","}","^","{","\\","\\","i",
        "n","f","t","y","}">>) \/ includes(latex, <<"R","_","{","t","+","1","+","k","}">>)

unrollReturn_pat ==
    Cat(<<Lit(<<"\\","\\","s","u","m","_","\\","{","k","=","0","\\","}","\\">>), Bol,
        Lit(<<"\\","{","\\","\\","i","n","f","t","y","\\","}","\\">>), Star(Lit(<<"s">>)),
        Lit(<<"\\","\\","g","a","m","m","a","\\">>), Bol, Lit(<<"k","\\">>), Star(Lit(<<"s">>)),
        Lit(<<"R","_","\\","{","t">>), Plus(Lit(<<"\\">>)), Lit(<<"1">>), Plus(Lit(<<"\\">>)),
        Lit(<<"k","\\","}">>)>>)

unrollReturn_transform(latex) ==
    IF ~test(unrollReturn_pat, latex)
    THEN Throw("Expected the return sum in the form \\\\sum_{k=0}^{\\\\infty} \\\\gamma^k R_{t+1+k}")
    ELSE LET next == replace(unrollReturn_pat, latex,
                             <<"R","_","{","t","+","1","}"," ","+"," ","\\","\\","g","a",
                                 "m","m","a","\\","\\","s","u","m","_","{","k","=","0","}","^",
                                 "{","\\","\\","i","n","f","t","y","}"," ","\\","\\","g","a",
                                 "m","m","a","^","k"," ","R","_","{","t","+","2","+","k","}">>)
         IN  Return(normalize(next))

linearity_appliesTo(latex) ==
    /\ includes(latex, <<"\\","m","a","t","h","b","b","{","E","}","[">>)
    /\ includes(latex, <<"R","_","{","t","+","1","}">>)
    /\ includes(latex, <<"+">>)
    /\ includes(latex, <<"\\","g","a","m","m","a">>)
    /\ includes(latex, <<"\\","m","i","d">>)

linearity_transform(latex) ==
    Value({
      IF start < 0 THEN Throw("Expected an expression starting with \\\\mathbb{E}[ ... ]")
      ELSE Value({
        IF mid < 0 THEN Throw("Expected a conditional bar \\\\mid inside the expectation.")
        ELSE IF end < 0 \/ end < mid
             THEN Throw("Expected a closing ']' for \\\\mathbb{E}[ ... ].")
        ELSE Value({
          Value({
            IF ~m2.found
            THEN Throw("Expected inside expectation: R_{t+1} + \\\\gamma ( ... )")
            ELSE Value({
              Return(<<"\\","m","a","t","h","b","b","{","E","}","[","R","_","{","t","+","1",
                  "}","\\","m","i","d"," ">> \o cond \o <<"]"," ","+"," ","\\","g","a","m","m",
                  "a","\\",",","\\","m","a","t","h","b","b","{","E","}","[">>
                     \o rest \o <<"\\","m","i","d"," ">> \o cond \o <<"]">>)
              : rest \in {trim(m2.group)} })
            : m2 \in {exec(Cat(<<Bol, Lit(<<"R","_","{","t","+","1","}">>), Star(Ws),
                Lit(<<"+">>), Star(Ws), Lit(<<"\\","g","a","m","m","a">>), Star(Ws),
                Cap(Plus(Dot)), Eol>>), inside, 1)} })
          : inside \in {trim(slice(s, start + Len(<<"\\","m","a","t","h","b","b","{","E",
              "}","[">>), mid))},
            cond \in {trim(slice(s, mid + Len(<<"\\","m","i","d">>), end))} })
        : mid \in {indexOf(s, <<"\\","m","i","d">>, start)}, end \in {lastIndexOf(s, <<"]">>)} })
      : s \in {latex}, start \in {indexOf(latex, <<"\\","m","a","t","h","b","b","{","E","}",
          "[">>, 0)} })

defineR_appliesTo(latex) ==
    test(Cat(<<Lit(<<"\\","\\","m","a","t","h","b","b","{","E","}","[","R","_","{","t","+",
        "1","}","\\","\\","m","i","d">>), Star(Ws), Lit(<<"S","_","t">>), Star(Ws),
        Lit(<<"=">>), Star(Ws), Lit(<<"s","]">>)>>), latex)

defineR_transform(latex) ==
    LET next == replace(Cat(<<Lit(<<"\\","\\","m","a","t","h","b","b","\\","{","E","\\","}",
        "\\">>), Cls({"*","+","1","=","R","S","\\","_","d","i","m","s","t","{","}"})>>),
                        latex, <<"r","(","s",")">>)
    IN  Return(normalize(next))

totalExpectation_appliesTo(latex) ==
    test(Cat(<<Lit(<<"\\","\\","m","a","t","h","b","b","\\","{","E","\\","}","\\">>),
        Cls({"(",")","*","+",".","0","1","=","G","S","\\","^","_","d","f","i","k","m","n","s",
        "t","u","y","{","|","}"})>>),
         latex)

\* m[1] is undefined when the pattern has no capturing group that took part in
\* the match; m[1].trim() then throws a TypeError.
totalExpectation_transform(latex) ==
    Value({
      IF ~m.found THEN Throw("Expected \\\\mathbb{E}[ ... \\\\\\mid S_t = s ]")
      ELSE IF ~m.hasGroup THEN Throw("Cannot read properties of undefined (reading 'trim')")
      ELSE LET X == trim(m.group)
               next == <<"\\","\\","s","u","m","_","{","s","'","}"," ","p","(","s","'","\\",
                   "\\","\\","m","i","d"," ","s",")","\\","\\",",","\\","\\","m","a","t","h",
                   "b","b","{","E","}","[">> \o X \o <<"\\","\\","\\","m","i","d"," ","S","_",
                   "{","t","+","1","}","=","s","'","]">>
           IN  Return(normalize(next))
      : m \in {exec(Cat(<<Lit(<<"\\","\\","m","a","t","h","b","b","\\","{","E","\\","}",
          "\\">>), Cls({"(",")","*","+",".","=","S","\\","_","d","i","m","s","t"})>>), latex,
          1)} })

valueSubstitution_appliesTo(latex) ==
    includes(latex, <<"\\","\\","m","a","t","h","b","b","{","E","}",
        "[">>) /\ includes(latex, <<"\\","\\","\\","m","i","d"," ","S","_","{","t","+","1","}",
        "=","s","'">>)

valueSubstitution_transform(latex) ==
    LET a == replace(Cat(<<Lit(<<"\\","\\","m","a","t","h","b","b","\\","{","E","\\","}",
        "\\">>), Cls({"'","*","+","1","=","G","S","\\","_","d","i","m","s","t","{","}"})>>),
                     latex, <<"v","(","s","'",")">>)
        b == replace(Cat(<<Lit(<<"\\","\\","m","a","t","h","b","b","\\","{","E","\\","}",
            "\\">>), Cls({"'","*","+","1","=","G","S","\\","_","d","i","m","s","t","{","}"})>>),
                     a, <<"v","(","s","'",")">>)
        next == replace(Cat(<<Lit(<<"\\","\\","m","a","t","h","b","b","\\","{","E","\\","}",
            "\\">>), Cls({"'","*","+","0","1","2","=","R","S","\\","^","_","a","d","f","g","i",
            "k","m","n","s","t","u","y","{","}"})>>),
                        b, <<"v","(","s","'",")">>)
    IN  Return(normalize(next))

assembleBellman_appliesTo(latex) ==
    includes(latex, <<"r","(","s",")">>) /\ includes(latex, <<"\\","\\","s","u","m","_","{",
        "s","'","}">>)

assembleBellman_transform(latex) ==
    LET pat  == Cat(<<Bol, Lit(<<"r","\\">>), Cap(Lit(<<"s","\\">>)), Lit(<<"\\">>),
        Star(Lit(<<"s">>)), Plus(Lit(<<"\\">>)), Lit(<<"\\">>), Star(Lit(<<"s">>)), Lit(<<"\\",
        "\\","g","a","m","m","a","\\">>), Star(Lit(<<"s">>)), Lit(<<"\\","\\","s","u","m","_",
        "\\","{","s","'","\\","}","\\">>), Star(Lit(<<"s">>)), Lit(<<"p","\\">>),
        Grp(Cat(<<Lit(<<"s","'","\\","\\","\\","m","i","d","\\">>), Star(Lit(<<"s">>)),
        Lit(<<"s","\\">>)>>)), Lit(<<"\\">>), Star(Lit(<<"s">>)), Opt(Lit(<<",">>)),
        Lit(<<"\\">>), Star(Lit(<<"s">>)), Lit(<<"v","\\">>), Grp(Lit(<<"s","'","\\">>)), Eol>>)
        pat2 == Cat(<<Bol, Lit(<<"r","\\">>), Cap(Lit(<<"s","\\">>)), Lit(<<"\\">>),
            Star(Lit(<<"s">>)), Plus(Lit(<<"\\">>)), Lit(<<"\\">>), Star(Lit(<<"s">>)),
            Lit(<<"\\","\\","g","a","m","m","a","\\">>), Star(Lit(<<"s">>)), Lit(<<"\\","\\",
            "s","u","m","_","\\","{","s","'","\\","}","\\">>), Star(Lit(<<"s">>)), Lit(<<"p",
            "\\">>), Grp(Cat(<<Lit(<<"s","'","\\","\\","\\","m","i","d","\\">>),
            Star(Lit(<<"s">>)), Lit(<<"s","\\">>)>>)), Lit(<<"\\","\\",",","\\">>),
            Star(Lit(<<"s">>)), Lit(<<"v","\\">>), Grp(Lit(<<"s","'","\\">>)), Eol>>)
    IN  IF ~test(pat, latex) /\ ~test(pat2, latex)
        THEN Throw("Expected r(s) + \\\\gamma \\\\sum_{s'} p(s'|s) v(s')")
        ELSE Return(<<"v","(","s",")"," ","="," ","r","(","s",")"," ","+"," ","\\","\\","g",
            "a","m","m","a"," ","\\","\\","s","u","m","_","{","s","'","}"," ","p","(","s","'",
            "\\","\\","\\","m","i","d"," ","s",")"," ","v","(","s","'",")">>)

\* The catalog, in its source order.  The closures of a rule are reached
\* through appliesTo and transform below, by the rule's id.
mrpBellmanRules ==
    << [id |-> "def-value", name |-> "Definition of value",
        explanation |-> "By definition, the value of state s is the expected return starting from s."],

       [id |-> "def-return", name |-> "Expand return definition",
        explanation |-> "Return is the discounted sum of future rewards."],
       [id |-> "unroll-return", name |-> "Unroll return",
        explanation |-> "Split the first reward from the discounted sum (index shift)."],
       [id |-> "linearity", name |-> "Linearity of expectation",
        explanation |-> "Expectation is linear; split sums and pull out constants."],
       [id |-> "define-r", name |-> "Define expected reward",
        explanation |-> "Define r(s) as the expected one-step reward from state s."],
       [id |-> "total-expectation-next-state", name |-> "Law of total expectation over next state",
        explanation |-> "Condition on S_{t+1} using the law of total expectation (Markov chain transitions)."],

       [id |-> "value-substitution", name |-> "Substitute value at next state",
        explanation |-> "Recognize the expected future return from the next state as v(s')."],
       [id |-> "assemble-bellman", name |-> "Assemble Bellman expectation equation",
        explanation |-> "This is the Bellman expectation equation for an MRP."] >>

\* Rules that are not in the catalog: callers may hand applicableRules any
\* RewriteRule, and a predicate is free to throw.
stubRules ==
    << [id |-> "stub-true", name |-> "Always applies", explanation |-> "stub"],
       [id |-> "stub-false", name |-> "Never applies", explanation |-> "stub"],
       [id |-> "stub-throws", name |-> "Predicate throws", explanation |-> "stub"] >>

\* rule.appliesTo(latex): Return(TRUE), Return(FALSE) or Throw(message).
appliesTo(rule, latex) ==
    CASE rule.id = "def-value"     -> Return(defValue_appliesTo(latex))
      [] rule.id = "def-return"    -> Return(defReturn_appliesTo(latex))
      [] rule.id = "unroll-return" -> Return(unrollReturn_appliesTo(latex))
      [] rule.id = "linearity"     -> Return(linearity_appliesTo(latex))
      [] rule.id = "define-r"      -> Return(defineR_appliesTo(latex))
      [] rule.id = "total-expectation-next-state" -> Return(totalExpectation_appliesTo(latex))
      [] rule.id = "value-substitution" -> Return(valueSubstitution_appliesTo(latex))
      [] rule.id = "assemble-bellman"   -> Return(assembleBellman_appliesTo(latex))
      [] rule.id = "stub-true"     -> Return(TRUE)
      [] rule.id = "stub-false"    -> Return(FALSE)
      [] rule.id = "stub-throws"   -> Throw("predicate failed")

\* rule.transform(latex): Return(text) or Throw(message).
transform(rule, latex) ==
    CASE rule.id = "def-value"     -> defValue_transform(latex)
      [] rule.id = "def-return"    -> defReturn_transform(latex)
      [] rule.id = "unroll-return" -> unrollReturn_transform(latex)
      [] rule.id = "linearity"     -> linearity_transform(latex)
      [] rule.id = "define-r"      -> defineR_transform(latex)
      [] rule.id = "total-expectation-next-state" -> totalExpectation_transform(latex)
      [] rule.id = "value-substitution" -> valueSubstitution_transform(latex)
      [] rule.id = "assemble-bellman"   -> assembleBellman_transform(latex)
      [] OTHER -> Return(latex)

\* ------------------------------------------------------------------------
\* ruleEngine.ts
\* ------------------------------------------------------------------------

\* The filter callback: try { return r.appliesTo(latex) } catch { return false }.
keepRule(r, latex) == \E p \in {appliesTo(r, latex)} : IF p.ok THEN p.val ELSE FALSE

\* A variant of applicableRules whose callback has no try/catch: the first
\* predicate that throws ends the call.
applicableRules_unguarded(latex, rules) ==
    IF \E i \in 1..Len(rules) : ~appliesTo(rules[i], latex).ok
    THEN Throw(appliesTo(rules[SetMin({i \in 1..Len(rules) : ~appliesTo(rules[i], latex).ok})],
                         latex).err)
    ELSE Return(SelectSeq(rules, LAMBDA r : appliesTo(r, latex).val))

\* Array.prototype.filter: an exception of the callback would end the call.
applicableRules(latex, rules) ==
    Return(SelectSeq(rules, LAMBDA r : keepRule(r, latex)))

\* A field of a step that is not set.
undefined == "undefined"

\* A variant of applyRule that catches the failure of transform and returns
\* the step with the expression unchanged.
applyRule_swallows(current, rule) ==
    Value({ Return([latex |-> IF nextLatex.ok THEN nextLatex.val ELSE current.latex,
                    ruleId |-> rule.id, ruleName |-> rule.name,
                    explanation |-> rule.explanation])
            : nextLatex \in {transform(rule, current.latex)} })

applyRule(current, rule) ==
    Value({ IF ~nextLatex.ok THEN Throw(nextLatex.err)
            ELSE Return([latex |-> nextLatex.val, ruleId |-> rule.id, ruleName |-> rule.name,
                         explanation |-> rule.explanation])
            : nextLatex \in {transform(rule, current.latex)} })

\* ------------------------------------------------------------------------
\* App.tsx: the step history and its cursor
\* ------------------------------------------------------------------------

VARIABLES
    steps,        \* useState<DerivationStep[]>: the history
    activeIndex,  \* useState<number>: the cursor, 0-based
    lastOp,       \* the last handler that ran, and how many steps it discarded
    catalog,      \* applicableRules call: the rules handed in
    expr,         \* applicableRules call: the expression handed in
    out,          \* applicableRules call: its outcome, once it has been made
    mem,          \* the heap of the arrays (Mat, Vec and their rows)
    job,          \* matrix kernel call: the function and its arguments
    res           \* matrix kernel call: its outcome, once it has been made

vars == <<steps, activeIndex, lastOp, catalog, expr, out, mem, job, res>>

uiVars == <<steps, activeIndex, lastOp>>

engineVars == <<catalog, expr, out>>

kernelVars == <<mem, job, res>>

\* No call of applicableRules has been made with catalog and expr.
NotCalled == [done |-> FALSE, posed |-> FALSE]

\* The arguments of a call are chosen, the call is still to be made.
Pending == [done |-> FALSE, posed |-> TRUE]

\* No call of the matrix kernel is in preparation.
NoJob == [op |-> "none"]

\* The call of the matrix kernel has not been made.
NoResult == [done |-> FALSE]

\* The longest history the model builds.
MaxSteps == 3

START ==
    [latex |-> <<"v","(","s",")">>, ruleId |-> undefined, ruleName |-> "Start",
     explanation |-> "Start from the value function for a state s."]

\* What the user may type into the textarea (before LatexRenderer's onChange
\* canonicalizes it).
EditTexts ==
    { <<"\\","m","a","t","h","b","b","{","E","}","[","R","_","{","t","+","1","}"," ","+",
        " ","\\","g","a","m","m","a"," ","G","_","{","t","+","1","}","\\","m","i","d"," ","S",
        "_","t","=","s","]">>,
      <<"\\","m","a","t","h","b","b","{","E","}","[","R","_","{","t","+","1","}","+","\\",
          "g","a","m","m","a"," ","X"," "," ","Y","\\","m","i","d"," ","S","_","t","=","s",
          "]">>,
      <<"r","(","s",")"," ","+"," ","\\","\\","\\","\\","g","a","m","m","a"," ","\\","\\",
          "\\","\\","s","u","m","_","{","s","'","}"," ","p","(","s","'","\\","\\","\\","\\",
          "\\","\\","m","i","d"," ","s",")"," ","v","(","s","'",")">>,
      <<" "," ","v","_","\\","p","i","("," ","s"," ",")">> }

\* steps[activeIndex]
active == steps[activeIndex + 1]

\* useMemo(() => applicableRules(active.latex, mrpBellmanRules)): the buttons shown.
rules == applicableRules(active.latex, mrpBellmanRules).val

\* A variant of advance that appends without truncating to the cursor.
advance_keepsTail(next) ==
    /\ steps' = steps \o <<next>>
    /\ activeIndex' = activeIndex + 1

\* prev.slice(0, activeIndex + 1).concat(next); setActiveIndex(activeIndex + 1)
advance(next) ==
    /\ steps' = SubSeq(steps, 1, activeIndex + 1) \o <<next>>
    /\ activeIndex' = activeIndex + 1

Op(kind, rule, ok) ==
    [kind |-> kind, rule |-> rule, ok |-> ok, dropped |-> Len(steps) - (activeIndex + 1)]

setActiveLatex(nextLatex) ==
    LET nextStep == [latex |-> nextLatex, ruleId |-> undefined, ruleName |-> "Manual edit",
                     explanation |-> "You edited the expression."]
    IN  /\ advance(nextStep)
        /\ lastOp' = Op("edit", undefined, TRUE)

\* The textarea's onChange: onChange(canonicalizeLatex(e.target.value)).
ManualEdit(raw) ==
    /\ activeIndex + 2 <= MaxSteps
    /\ setActiveLatex(canonicalizeLatex(raw))
    /\ UNCHANGED <<engineVars, kernelVars>>

\* The pseudo-step of the catch block.
failedStep(rule, msg) ==
    [latex |-> active.latex, ruleId |-> undefined, ruleName |-> "Rule failed: " \o rule.name,
     explanation |-> msg]

\* mrpBellmanRules.find((r) => r.id === ruleId): <<>> or <<the first such rule>>.
find(ruleId) ==
    Value({ IF found = <<>> THEN <<>> ELSE <<found[1]>>
            : found \in {SelectSeq(mrpBellmanRules, LAMBDA r : r.id = ruleId)} })

onApplyRule(ruleId) ==
    \E found \in {find(ruleId)} :
        IF found = <<>> THEN UNCHANGED uiVars
        ELSE \E rule \in {found[1]} : \E next \in {applyRule(active, rule)} :
                /\ advance(IF next.ok THEN next.val ELSE failedStep(rule, next.err))
                /\ lastOp' = Op("apply", ruleId, next.ok)

\* A click on the button of an applicable rule.
ClickRule(rule) ==
    /\ activeIndex + 2 <= MaxSteps
    /\ onApplyRule(rule.id)
    /\ UNCHANGED <<engineVars, kernelVars>>

\* A variant of reset that forgets setActiveIndex(0).
reset_keepsCursor ==
    /\ steps' = <<START>>
    /\ lastOp' = [kind |-> "reset", rule |-> undefined, ok |-> TRUE, dropped |-> 0]
    /\ UNCHANGED <<activeIndex, engineVars, kernelVars>>

reset ==
    /\ steps' = <<START>>
    /\ activeIndex' = 0
    /\ lastOp' = Op("reset", undefined, TRUE)
    /\ UNCHANGED <<engineVars, kernelVars>>

\* A variant of Back that also drops the steps after the new cursor.
Back_truncates ==
    /\ activeIndex # 0
    /\ activeIndex' = (IF activeIndex - 1 > 0 THEN activeIndex - 1 ELSE 0)
    /\ steps' = SubSeq(steps, 1, activeIndex' + 1)
    /\ lastOp' = Op("back", undefined, TRUE)
    /\ UNCHANGED <<engineVars, kernelVars>>

\* The Back button, disabled at index 0: setActiveIndex(i => Math.max(0, i - 1)).
Back ==
    /\ activeIndex # 0
    /\ activeIndex' = (IF activeIndex - 1 > 0 THEN activeIndex - 1 ELSE 0)
    /\ lastOp' = Op("back", undefined, TRUE)
    /\ UNCHANGED <<steps, engineVars, kernelVars>>

\* A click on entry idx of the step history: setActiveIndex(idx).
ClickHistory(idx) ==
    /\ activeIndex' = idx
    /\ lastOp' = Op("goto", undefined, TRUE)
    /\ UNCHANGED <<steps, engineVars, kernelVars>>

Init ==
    /\ steps = <<START>>
    /\ activeIndex = 0
    /\ lastOp = [kind |-> "init", rule |-> undefined, ok |-> TRUE, dropped |-> 0]
    /\ catalog = <<>>
    /\ expr = <<>>
    /\ out = NotCalled
    /\ mem = <<>>
    /\ job = NoJob
    /\ res = NoResult

Next ==
    \/ \E raw \in EditTexts : ManualEdit(raw)
    \/ \E shown \in {rules} : \E i \in 1..Len(shown) : ClickRule(shown[i])
    \/ reset
    \/ Back
    \/ \E idx \in 0..(Len(steps) - 1) : ClickHistory(idx)

Spec == Init /\ [][Next]_vars


\* ------------------------------------------------------------------------
\* Properties of the step history
\* ------------------------------------------------------------------------

\* C1: in every state reachable from the history <<START>> with cursor 0 by
\* the UI operations (apply a rule, manual edit, Back, click on a history
\* entry, Reset), 0 <= cursor < length of the step sequence.
CursorInRange == 0 <= activeIndex /\ activeIndex < Len(steps)

\* The cursor was moved back to the first of several steps.
CursorInRange_witness ==
    /\ lastOp.kind \in {"back", "goto"}
    /\ Len(steps) = MaxSteps
    /\ activeIndex = 0

\* C2: a step that advances the history (a manual edit or the application of
\* a rule) from cursor c on the sequence s leaves s[0..c] followed by the new
\* step: the steps 0..c are unchanged, the steps after c are discarded, the
\* new length is c + 2 and the new cursor c + 1, the last index.
AdvanceTruncates ==
    [][lastOp'.kind \in {"edit", "apply"} =>
          /\ Len(steps') = activeIndex + 2
          /\ \A k \in 1..(activeIndex + 1) : steps'[k] = steps[k]
          /\ steps' = SubSeq(steps, 1, activeIndex + 1) \o <<steps'[Len(steps')]>>
          /\ activeIndex' = activeIndex + 1
          /\ activeIndex' = Len(steps') - 1]_vars

\* An advance discarded the steps after the cursor.
AdvanceTruncates_witness ==
    /\ lastOp.kind \in {"edit", "apply"}
    /\ lastOp.dropped > 0

\* C4: when the transform of the chosen rule raises, applyRule raises the same
\* error and the step of the UI leaves s[0..c] followed by one pseudo-step
\* whose ruleName is "Rule failed: <rule name>", whose explanation is the
\* error message and whose expression is that of the active step, and makes
\* it the current step.
FailureIsRecorded ==
    [][(lastOp'.kind = "apply" /\ ~transform(find(lastOp'.rule)[1], active.latex).ok) =>
          \E rule \in {find(lastOp'.rule)[1]} :
          \E failure \in {transform(rule, active.latex)} :
            /\ applyRule(active, rule) = Throw(failure.err)
            /\ steps' = SubSeq(steps, 1, activeIndex + 1)
                         \o << [latex |-> active.latex, ruleId |-> undefined,
                                ruleName |-> "Rule failed: " \o rule.name,
                                explanation |-> failure.err] >>
            /\ activeIndex' = Len(steps') - 1]_vars

\* A rule failed on a step that had later steps after it.
FailureIsRecorded_witness ==
    /\ lastOp.kind = "apply"
    /\ ~lastOp.ok
    /\ lastOp.dropped > 0
    /\ steps[Len(steps)].explanation # ""

\* C5: applying def-value to the start expression "v(s)" yields a step that
\* carries the ruleId def-value and whose expression contains
\* \mathbb{E}[G_t\mid S_t=s], with one backslash before mathbb and before mid.
DefValueYieldsExpectation ==
    (/\ lastOp.kind = "apply"
     /\ lastOp.rule = "def-value"
     /\ activeIndex = 1
     /\ steps[1] = START) =>
        /\ active.ruleId = "def-value"
        /\ includes(active.latex, <<"\\","m","a","t","h","b","b","{","E","}","[","G","_",
            "t","\\","m","i","d"," ","S","_","t","=","s","]">>)

\* s has no run of two or more whitespace characters and no whitespace at
\* either end.
WhitespaceNormalized(s) ==
    /\ \A i \in 1..(Len(s) - 1) : ~(s[i] \in Whitespace /\ s[i + 1] \in Whitespace)
    /\ s # <<>> => (s[1] \notin Whitespace /\ s[Len(s)] \notin Whitespace)

\* C9: the expression a rule of the catalog returns is whitespace-normalized,
\* whatever the rule and the expression it was applied to.
TransformsNormalize ==
    (lastOp.kind = "apply" /\ lastOp.ok) => WhitespaceNormalized(active.latex)

\* C11: a move of the cursor, by Back (to max(0, cursor - 1)) or by a click on
\* entry i of the history (to i, with 0 <= i < length), changes the cursor
\* only: the sequence of steps, its length and every step in it stay as they
\* were.
MoveKeepsSteps ==
    [][/\ lastOp'.kind = "back" =>
            /\ steps' = steps
            /\ activeIndex' = (IF activeIndex - 1 > 0 THEN activeIndex - 1 ELSE 0)
       /\ lastOp'.kind = "goto" =>
            /\ steps' = steps
            /\ activeIndex' \in 0..(Len(steps) - 1)]_vars

\* The cursor was moved back in a history of three steps, to a step with
\* later steps after it.
MoveKeepsSteps_witness ==
    /\ lastOp.kind = "back"
    /\ Len(steps) = 3
    /\ activeIndex + 1 < Len(steps)

\* The suggested path shown under the panels: the rules by id, in the order
\* of the catalog.
SuggestedPath ==
    <<"def-value", "def-return", "unroll-return", "linearity", "define-r",
      "total-expectation-next-state", "value-substitution", "assemble-bellman">>

\* The history is the start step followed by the steps of the first rules of
\* the suggested path, in order, the cursor is on the last of them, and the
\* path is not finished.
OnSuggestedPath ==
    /\ steps[1] = START
    /\ activeIndex = Len(steps) - 1
    /\ Len(steps) <= Len(SuggestedPath)
    /\ \A k \in 1..(Len(steps) - 1) : steps[k + 1].ruleId = SuggestedPath[k]

\* C12: from the start step "v(s)", along the suggested path, the next rule
\* of the path is reported applicable to the expression its predecessor
\* produced (its button is shown) and applying it succeeds, so that the
\* derivation goes on to the step of assemble-bellman.
DerivationFollowsPath ==
    OnSuggestedPath =>
        \E rule \in {find(SuggestedPath[Len(steps)])[1]} :
            /\ \E i \in 1..Len(rules) : rules[i] = rule
            /\ applyRule(active, rule).ok

\* The path has come to the step of def-return: the button of unroll-return
\* is shown for its expression, and applying unroll-return to it fails.
DerivationFollowsPath_witness ==
    /\ OnSuggestedPath
    /\ active.ruleId = "def-return"
    /\ \E i \in 1..Len(rules) : rules[i].id = "unroll-return"
    /\ ~applyRule(active, find("unroll-return")[1]).ok

\* ------------------------------------------------------------------------
\* applicableRules called with any catalog
\* ------------------------------------------------------------------------

\* The longest catalog handed to applicableRules.
MaxCatalog == 3

\* The rules the catalogs are made of: three rules of mrpBellmanRules and
\* the three rules that are not in it.
RulePool ==
    { mrpBellmanRules[i] : i \in {1, 2, 4} } \cup { stubRules[i] : i \in 1..Len(stubRules) }

Catalogs == UNION { [1..n -> RulePool] : n \in 0..MaxCatalog }

\* The expressions handed to applicableRules.
EngineTexts ==
    { <<"v","(","s",")">>,
      <<"\\","m","a","t","h","b","b","{","E","}","[","G","_","t","\\","m","i","d"," ","S",
          "_","t","=","s","]">>,
      <<"\\","m","a","t","h","b","b","{","E","}","[","R","_","{","t","+","1","}"," ","+",
          " ","\\","g","a","m","m","a"," ","G","_","{","t","+","1","}","\\","m","i","d"," ","S",
          "_","t","=","s","]">>,
      <<>> }

\* A caller picks the arguments of its next call.
Pose(C, e) ==
    /\ out = NotCalled
    /\ catalog' = C
    /\ expr' = e
    /\ out' = Pending
    /\ UNCHANGED <<uiVars, kernelVars>>

\* applicableRules(expr, catalog) runs to its end.
Call ==
    /\ out = Pending
    /\ out' = [done |-> TRUE, posed |-> TRUE] @@ applicableRules(expr, catalog)
    /\ UNCHANGED <<catalog, expr, uiVars, kernelVars>>

\* The caller is done with the result.
Forget ==
    /\ out.done
    /\ catalog' = <<>>
    /\ expr' = <<>>
    /\ out' = NotCalled
    /\ UNCHANGED <<uiVars, kernelVars>>

NextEngine ==
    \/ \E C \in Catalogs, e \in EngineTexts : Pose(C, e)
    \/ Call
    \/ Forget

SpecEngine == Init /\ [][NextEngine]_vars

\* The positions of catalog whose predicate returns true on expr.
TruePositions ==
    { i \in 1..Len(catalog) : appliesTo(catalog[i], expr) = Return(TRUE) }

\* C3: applicableRules(e, C) never raises and returns exactly the entries of
\* C whose appliesTo(e) returns true, in the order of C: its k-th entry is the
\* entry of C at the k-th such position.  An entry whose predicate raises is
\* left out like one whose predicate returns false.
ApplicableRulesFilters ==
    out.done =>
        /\ out.ok
        /\ Len(out.val) = Cardinality(TruePositions)
        /\ \A k \in 1..Len(out.val) :
              \E i \in TruePositions :
                  /\ Cardinality({j \in TruePositions : j <= i}) = k
                  /\ out.val[k] = catalog[i]

\* A call whose catalog holds a rule whose predicate raises between two
\* rules that apply.
ApplicableRulesFilters_witness ==
    /\ out.done
    /\ Len(catalog) = 3
    /\ appliesTo(catalog[1], expr) = Return(TRUE)
    /\ ~appliesTo(catalog[2], expr).ok
    /\ appliesTo(catalog[3], expr) = Return(TRUE)
    /\ catalog[1] # catalog[3]
    /\ out.ok
    /\ Len(out.val) = 2

\* ------------------------------------------------------------------------
\* Natural numbers of any size: sequences of limbs, least significant first,
\* without a zero limb at the high end (<<>> is zero).  TLC's integers have
\* 32 bits; the 53-bit significands of the numbers below do not fit.
\* ------------------------------------------------------------------------

Limb == 2^14

\* 0 when S is empty.
MaxOrZero(S) == Value({ IF hits = {} THEN 0 ELSE SetMax(hits) : hits \in {S} })

BigTrim(a) == Value({ SubSeq(x, 1, MaxOrZero({i \in 1..Len(x) : x[i] # 0})) : x \in {a} })

LimbAt(a, i) == IF i >= 1 /\ i <= Len(a) THEN a[i] ELSE 0

\* The limbs of the number whose value is the sum of cols[i] * Limb^(i-1),
\* from column i on with the carry c (columns may be negative or exceed a
\* limb; the whole sum is not negative).
RECURSIVE CarryFrom(_, _, _)
CarryFrom(cols, i, c) ==
    IF i > Len(cols) /\ c = 0 THEN <<>>
    ELSE Value({ <<v % Limb>> \o CarryFrom(cols, i + 1, v \div Limb)
                 : v \in {LimbAt(cols, i) + c} })

Carry(cols) == Value({ BigTrim(CarryFrom(x, 1, 0)) : x \in {cols} })

FromNat(k) == Carry(<<k>>)

BigAdd(a, b) ==
    Value({ Carry([i \in 1..(IF Len(x) > Len(y) THEN Len(x) ELSE Len(y)) |->
                      LimbAt(x, i) + LimbAt(y, i)])
            : x \in {a}, y \in {b} })

\* a - b for a >= b.
BigSub(a, b) ==
    Value({ Carry([i \in 1..Len(x) |-> x[i] - LimbAt(y, i)]) : x \in {a}, y \in {b} })

\* a * d for 0 <= d <= Limb.
MulSmall(a, d) == Value({ Carry([i \in 1..Len(x) |-> x[i] * k]) : x \in {a}, k \in {d} })

\* a * Limb^q
ShiftLimbs(a, q) == Value({ IF x = <<>> THEN <<>> ELSE [i \in 1..q |-> 0] \o x : x \in {a} })

RECURSIVE BigMulFrom(_, _, _)
BigMulFrom(a, b, j) ==
    IF j > Len(b) THEN <<>>
    ELSE BigAdd(ShiftLimbs(MulSmall(a, b[j]), j - 1), BigMulFrom(a, b, j + 1))

BigMul(a, b) == Value({ BigMulFrom(x, y, 1) : x \in {a}, y \in {b} })

\* -1, 0, 1 as a < b, a = b, a > b.
BigCmp(a, b) ==
    Value({ IF Len(x) # Len(y) THEN (IF Len(x) < Len(y) THEN -1 ELSE 1)
            ELSE Value({ IF i = 0 THEN 0 ELSE IF x[i] < y[i] THEN -1 ELSE 1
                         : i \in {MaxOrZero({k \in 1..Len(x) : x[k] # y[k]})} })
            : x \in {a}, y \in {b} })

\* a * 2^k
BigShl(a, k) == ShiftLimbs(MulSmall(a, 2^(k % 14)), k \div 14)

\* a \div 2^k
BigShr(a, k) ==
    Value({ BigTrim([i \in 1..(Len(x) - q) |->
                       (x[i + q] \div 2^r) + (LimbAt(x, i + q + 1) % 2^r) * 2^(14 - r)])
            : x \in {a}, q \in {k \div 14}, r \in {k % 14} })

\* Whether a % 2^k # 0.
LowBits(a, k) ==
    \E x \in {a}, q \in {k \div 14}, r \in {k % 14} :
        \/ \E i \in 1..q : LimbAt(x, i) # 0
        \/ LimbAt(x, q + 1) % 2^r # 0

\* Bit k of a (bit 0 is the lowest).
Bit(a, k) == (LimbAt(a, k \div 14 + 1) \div 2^(k % 14)) % 2

\* The number of bits of a: 0 for zero.
BitLen(a) ==
    Value({ IF x = <<>> THEN 0
            ELSE 14 * (Len(x) - 1) + SetMin({k \in 1..14 : x[Len(x)] < 2^k})
            : x \in {a} })

\* The number of zero bits at the low end of a # 0.
TrailingZeros(a) ==
    Value({ Value({ 14 * (z - 1) + SetMin({k \in 0..13 : (x[z] \div 2^k) % 2 = 1})
                    : z \in {SetMin({i \in 1..Len(x) : x[i] # 0})} })
            : x \in {a} })

\* Long division, one limb of the quotient at a time, the highest first.
\* d is scaled so that its highest limb is at least Limb / 2, and then the
\* quotient of the two highest limbs of the remainder by it is the digit, or
\* one or two more than the digit.
Digit(r, d) ==
    Value({ Value({ Value({ SetMax({q \in fits : q >= 0 /\ BigCmp(MulSmall(d, q), r) <= 0})
                            : fits \in {{top - 2, top - 1, top}} })
                    : top \in {IF est >= Limb THEN Limb - 1 ELSE est} })
            : est \in {(LimbAt(r, Len(d) + 1) * Limb + LimbAt(r, Len(d))) \div d[Len(d)]} })

\* <<quotient, remainder>> of (rem * Limb^i + the low i limbs of n) by d.
RECURSIVE DivFrom(_, _, _, _)
DivFrom(n, d, i, rem) ==
    IF i = 0 THEN <<<<>>, rem>>
    ELSE Value({ Value({ Value({ << qr[1] \o <<q>>, qr[2] >>
                                 : qr \in {DivFrom(n, d, i - 1, BigSub(r, MulSmall(d, q)))} })
                         : q \in {Digit(r, d)} })
                 : r \in {BigTrim(<<n[i]>> \o rem)} })

\* <<a \div b, whether a % b # 0>> for b # 0.
BigDiv(a, b) ==
    Value({ Value({ Value({ <<BigTrim(qr[1]), qr[2] # <<>>>>
                            : qr \in {DivFrom(n, d, Len(n), <<>>)} })
                    : n \in {BigShl(x, s)}, d \in {BigShl(y, s)} })
            : x \in {a}, y \in {b}, s \in {14 - BitLen(<<b[Len(b)]>>)} })

\* ------------------------------------------------------------------------
\* The number type: IEEE 754 double-precision values.  A finite number is
\* (-1)^neg * man * 2^exp with man odd (or zero, with exp 0) and less than
\* 2^53; NaN is the value of an arithmetic operation on undefined.  The
\* operand sets of this model keep every result far from the overflow and
\* underflow thresholds, which are not modelled.
\* ------------------------------------------------------------------------

NaN == [nan |-> TRUE, neg |-> FALSE, man |-> <<>>, exp |-> 0]

Zero(neg) == [nan |-> FALSE, neg |-> neg, man |-> <<>>, exp |-> 0]

\* The finite number (-1)^neg * man * 2^exp for a man # 0 of any size: a real
\* number that may have more than 53 bits and then is no double.
Exact(neg, man, exp) ==
    Value({ [nan |-> FALSE, neg |-> neg, man |-> BigShr(m, z), exp |-> exp + z]
            : m \in {man}, z \in {TrailingZeros(man)} })

\* Round to nearest, ties to even: the number nearest to
\* (-1)^neg * (man + f) * 2^exp, where 0 <= f < 1 and f # 0 iff sticky
\* (sticky only with a man of more than 53 bits).
Round(neg, man, exp, sticky) ==
    Value({ IF len = 0 THEN Zero(neg)
            ELSE IF len <= 53 THEN Exact(neg, m, exp)
            ELSE Value({ Exact(neg, IF up THEN BigAdd(q, <<1>>) ELSE q, exp + (len - 53))
                         : q \in {BigShr(m, len - 53)},
                           up \in {/\ Bit(m, len - 54) = 1
                                   /\ \/ LowBits(m, len - 54)
                                      \/ sticky
                                      \/ Bit(m, len - 53) = 1} })
            : m \in {man}, len \in {BitLen(man)} })

\* The number of the integer k, |k| < 2^31.
FromInt(k) == IF k = 0 THEN Zero(FALSE) ELSE Exact(k < 0, FromNat(IF k < 0 THEN -k ELSE k), 0)

\* Math.abs
abs(x) == [x EXCEPT !.neg = FALSE]

\* Unary minus.
negate(x) == IF x.nan THEN x ELSE [x EXCEPT !.neg = ~x.neg]

\* -1, 0, 1 as |x| < |y|, |x| = |y|, |x| > |y|, for finite x and y.
CmpAbs(x, y) ==
    \* compared as integers at the smaller of the two exponents
    Value({ BigCmp(BigShl(x.man, x.exp - e), BigShl(y.man, y.exp - e))
            : e \in {IF x.exp < y.exp THEN x.exp ELSE y.exp} })

\* x < y
less(a, b) ==
    \E x \in {a}, y \in {b} :
        /\ ~x.nan /\ ~y.nan
        /\ ~(x.man = <<>> /\ y.man = <<>>)
        /\ IF x.neg # y.neg THEN x.neg /\ ~y.neg
           ELSE IF x.neg THEN CmpAbs(x, y) = 1 ELSE CmpAbs(x, y) = -1

\* x === y on numbers: NaN equals nothing, -0 equals 0.
equals(a, b) ==
    \E x \in {a}, y \in {b} :
        /\ ~x.nan /\ ~y.nan
        /\ x.man = y.man
        /\ x.exp = y.exp
        /\ (x.neg = y.neg \/ x.man = <<>>)

\* x + y as a real number.
realSum(a, b) ==
    Value({
      IF x.nan \/ y.nan THEN NaN
      ELSE IF x.man = <<>> /\ y.man = <<>> THEN Zero(x.neg /\ y.neg)
      ELSE IF x.man = <<>> THEN y
      ELSE IF y.man = <<>> THEN x
      ELSE Value({
             IF x.neg = y.neg THEN Exact(x.neg, BigAdd(mx, my), e)
             ELSE Value({ IF c = 0 THEN Zero(FALSE)
                          ELSE IF c = 1 THEN Exact(x.neg, BigSub(mx, my), e)
                          ELSE Exact(y.neg, BigSub(my, mx), e)
                          : c \in {BigCmp(mx, my)} })
             : e \in {IF x.exp < y.exp THEN x.exp ELSE y.exp},
               mx \in {BigShl(x.man, x.exp - (IF x.exp < y.exp THEN x.exp ELSE y.exp))},
               my \in {BigShl(y.man, y.exp - (IF x.exp < y.exp THEN x.exp ELSE y.exp))} })
      : x \in {a}, y \in {b} })

\* x * y as a real number.
realProduct(a, b) ==
    Value({ IF x.nan \/ y.nan THEN NaN
            ELSE IF x.man = <<>> \/ y.man = <<>> THEN Zero(x.neg # y.neg)
            ELSE Exact(x.neg # y.neg, BigMul(x.man, y.man), x.exp + y.exp)
            : x \in {a}, y \in {b} })

\* The double nearest to the real number x.
Rounded(x) == Value({ IF r.nan THEN NaN ELSE Round(r.neg, r.man, r.exp, FALSE) : r \in {x} })

\* x + y
plus(a, b) == Rounded(realSum(a, b))

\* x - y
minus(a, b) == Rounded(realSum(a, negate(b)))

\* x * y
times(a, b) == Rounded(realProduct(a, b))

\* x / y for y # 0 (every division of the kernel is by a pivot, whose absolute
\* value is at least the tolerance).  The dividend is scaled so that the
\* quotient has 55 bits or more: enough to round it.
over(a, b) ==
    Value({ IF x.nan \/ y.nan THEN NaN
            ELSE IF x.man = <<>> THEN Zero(x.neg # y.neg)
            ELSE Value({ Value({ Round(x.neg # y.neg, qs[1], x.exp - s - y.exp, qs[2])
                                 : qs \in {BigDiv(BigShl(x.man, s), y.man)} })
                         : s \in {BitLen(y.man) + 55 - BitLen(x.man)} })
            : x \in {a}, y \in {b} })

\* ------------------------------------------------------------------------
\* utils/matrix.ts.  Arrays are objects: mem is the heap, a sequence of
\* arrays; a reference to an array is its index in mem.  A Vec is an array of
\* numbers, a Mat an array of references to its rows.  Array indices are
\* 1-based here (A[r][c] of the code is mem[mem[A][r + 1]][c + 1]).
\* ------------------------------------------------------------------------

\* A new array: the heap with it, and the reference to it.
Alloc(heap, array) == [mem |-> Append(heap, array), ref |-> Len(heap) + 1]

\* The arrays of a sequence, allocated one after the other: the heap with
\* them, and the references to them.
RECURSIVE AllocAll(_, _)
AllocAll(heap, arrays) ==
    IF arrays = <<>> THEN [mem |-> heap, refs |-> <<>>]
    ELSE Value({ [mem |-> rest.mem, refs |-> <<Len(heap) + 1>> \o rest.refs]
                 : rest \in {AllocAll(Append(heap, Head(arrays)), Tail(arrays))} })

\* A new Mat with the given rows (each a new array).
AllocMat(heap, rowArrays) ==
    Value({ Alloc(rows.mem, rows.refs) : rows \in {AllocAll(heap, rowArrays)} })

\* The outcome of a call: the heap after it and the reference it returns ...
Returns(heap, ref) == [mem |-> heap, ok |-> TRUE, val |-> ref, err |-> "", col |-> 0]

\* ... or the message of the Error it throws, and the column the loop of
\* solveLinearSystem had reached (0 elsewhere).
ThrowsAt(heap, msg, col) == [mem |-> heap, ok |-> FALSE, val |-> 0, err |-> msg, col |-> col]

Throws(heap, msg) == ThrowsAt(heap, msg, 0)

\* The rows of the Mat A, by value.
Rows(heap, A) == [i \in 1..Len(heap[A]) |-> heap[heap[A][i]]]

identity(heap, n) ==
    Value({ Returns(m.mem, m.ref)
            : m \in {AllocMat(heap, [i \in 1..n |->
                                        [j \in 1..n |-> FromInt(IF i = j THEN 1 ELSE 0)]])} })

\* row[j] in an arithmetic expression: an index past the end reads
\* undefined, which converts to NaN.
NumberAt(row, j) == IF j <= Len(row) THEN row[j] ELSE NaN

matSub(heap, A, B) ==
    IF Len(heap[A]) # Len(heap[B]) THEN Throws(heap, "Matrix shape mismatch")
    ELSE IF heap[A] = <<>>
    THEN Throws(heap, "Cannot read properties of undefined (reading 'length')")
    ELSE IF Len(heap[heap[A][1]]) # Len(heap[heap[B][1]])
    THEN Throws(heap, "Matrix shape mismatch")
    ELSE Value({ Returns(m.mem, m.ref)
                 : m \in {AllocMat(heap, [i \in 1..Len(heap[A]) |->
                                [j \in 1..Len(heap[heap[A][i]]) |->
                                    minus(heap[heap[A][i]][j],
                                          NumberAt(heap[heap[B][i]], j))]])} })

\* A variant of cloneMat that copies the array of the rows but not the rows.
cloneMat_shallow(heap, A) == Alloc(heap, heap[A])

cloneMat(heap, A) == AllocMat(heap, Rows(heap, A))

\* 1e-12
Tolerance ==
    [nan |-> FALSE, neg |-> FALSE, man |-> <<10769, 1207, 14744, 1125>>, exp |-> -92]

\* A variant of belowTolerance without Math.abs.
belowTolerance_signed(x) == less(x, Tolerance)

\* Math.abs(x) < 1e-12
belowTolerance(x) == less(abs(x), Tolerance)

\* for (let r = ...; r < n; r++)
\*   if (Math.abs(A[r][col]) > Math.abs(A[pivot][col])) pivot = r;
RECURSIVE PivotFrom(_, _, _, _, _)
PivotFrom(heap, A, col, r, pivot) ==
    IF r > Len(heap[A]) THEN pivot
    ELSE Value({ PivotFrom(heap, A, col, r + 1, p)
                 : p \in {IF less(abs(heap[heap[A][pivot]][col]), abs(heap[heap[A][r]][col]))
                          THEN r ELSE pivot} })

\* A variant of Swap that swaps the rows of A and leaves b as it is.
Swap_rowsOnly(heap, A, b, col, pivot) ==
    [heap EXCEPT ![A] = [@ EXCEPT ![col] = heap[A][pivot], ![pivot] = heap[A][col]]]

\* [A[col], A[pivot]] = [A[pivot], A[col]]; [b[col], b[pivot]] = [b[pivot], b[col]];
Swap(heap, A, b, col, pivot) ==
    Value({ [swapped EXCEPT ![b] = [@ EXCEPT ![col] = swapped[b][pivot],
                                              ![pivot] = swapped[b][col]]]
            : swapped \in {[heap EXCEPT ![A] = [@ EXCEPT ![col] = heap[A][pivot],
                                                         ![pivot] = heap[A][col]]]} })

\* The body of the loop over the rows below the pivot row:
\*   const factor = A[r][col] / A[col][col];
\*   for (let c = col; c < n; c++) A[r][c] -= factor * A[col][c];
\*   b[r] -= factor * b[col];
\* Each A[r][c] is written once, from its own value and A[col][c].
EliminateRow(heap, A, b, col, r) ==
    Value({
      Value({ [rowDone EXCEPT ![b] = [@ EXCEPT ![r] =
                                        minus(rowDone[b][r], times(factor, rowDone[b][col]))]]
              : rowDone \in {[heap EXCEPT ![heap[A][r]] =
                                [c \in 1..Len(heap[heap[A][r]]) |->
                                    IF c >= col /\ c <= Len(heap[A])
                                    THEN minus(heap[heap[A][r]][c],
                                               times(factor, heap[heap[A][col]][c]))
                                    ELSE heap[heap[A][r]][c]]]} })
      : factor \in {over(heap[heap[A][r]][col], heap[heap[A][col]][col])} })

\* for (let r = ...; r < n; r++) { ... }
RECURSIVE EliminateFrom(_, _, _, _, _)
EliminateFrom(heap, A, b, col, r) ==
    IF r > Len(heap[A]) THEN heap
    ELSE Value({ EliminateFrom(next, A, b, col, r + 1) : next \in {EliminateRow(heap, A, b,
        col, r)} })

\* for (let col = ...; col < n; col++) { ... }: the heap after the loop, or
\* the Error thrown in it.
RECURSIVE ColumnsFrom(_, _, _, _)
ColumnsFrom(heap, A, b, col) ==
    IF col > Len(heap[A]) THEN Returns(heap, A)
    ELSE Value({
           IF belowTolerance(heap[heap[A][pivot]][col])
           THEN ThrowsAt(heap, "Matrix is singular or ill-conditioned", col)
           ELSE Value({ ColumnsFrom(next, A, b, col + 1)
                        : next \in {EliminateFrom(Swap(heap, A, b, col, pivot),
                                                  A, b, col, col + 1)} })
           : pivot \in {PivotFrom(heap, A, col, col + 1, col)} })

\* let sum = b[r]; for (let c = ...; c < n; c++) sum -= A[r][c] * x[c];
RECURSIVE SumFrom(_, _, _, _, _, _)
SumFrom(heap, A, x, r, c, sum) ==
    IF c > Len(heap[A]) THEN sum
    ELSE Value({ SumFrom(heap, A, x, r, c + 1, next)
                 : next \in {minus(sum, times(heap[heap[A][r]][c], x[c]))} })

\* for (let r = ...; r >= 0; r--) { ...; x[r] = sum / A[r][r]; }
RECURSIVE BackSubstituteFrom(_, _, _, _, _)
BackSubstituteFrom(heap, A, b, r, x) ==
    IF r < 1 THEN x
    ELSE Value({ BackSubstituteFrom(heap, A, b, r - 1, next)
                 : next \in {[x EXCEPT ![r] = over(SumFrom(heap, A, x, r, r + 1, heap[b][r]),
                                                  heap[heap[A][r]][r])]} })

\* solveLinearSystem(Ain, bIn), Ain a square Mat.
solveLinearSystem(heap, Ain, bIn) ==
    Value({
      Value({
        IF Len(copies.mem[b]) # Len(copies.mem[A]) THEN Throws(copies.mem, "b length mismatch")
        ELSE Value({
               IF ~done.ok THEN done
               ELSE Value({ Returns(x.mem, x.ref)
                            : x \in {Alloc(done.mem,
                                           BackSubstituteFrom(done.mem, A, b, Len(done.mem[A]),
                                               [i \in 1..Len(done.mem[A]) |-> FromInt(0)]))} })
               : done \in {ColumnsFrom(copies.mem, A, b, 1)} })
        : copies \in {Alloc(cloned.mem, cloned.mem[bIn])}, A \in {cloned.ref},
          b \in {Len(cloned.mem) + 1} })
      : cloned \in {cloneMat(heap, Ain)} })

\* ------------------------------------------------------------------------
\* Calls of the matrix kernel
\* ------------------------------------------------------------------------

\* The dimensions of the systems solved.
Dims == {0, 1, 2}

\* The largest entry of the matrices given to the solver.
MaxEntry == 2

Entries == (-1)..MaxEntry

VecEntries == {0, 1}

\* The n x n matrices and the vectors of length n, as integers.
SquareMats(n) == [1..n -> [1..n -> Entries]]

Vecs(n) == [1..n -> VecEntries]

\* The vectors a matrix of dimension n is paired with: those of length n,
\* one that is longer and one that is shorter.
VecsFor(n) ==
    Vecs(n) \cup {[i \in 1..(n + 1) |-> 1]} \cup (IF n > 0 THEN {[i \in 1..(n - 1) |-> 1]} ELSE {})

\* The caller's arrays for A and b.  With share, what the caller can hold in
\* one array it does: equal rows of A are one array, and b is the array
\* of the first row when it is equal to it.
RowRefs(M, base, share) ==
    [i \in 1..Len(M) |->
        IF share THEN base + SetMin({k \in 1..i : M[k] = M[i]}) ELSE base + i]

VecRef(M, v, base, share) ==
    IF share /\ M # <<>> /\ M[1] = v THEN base + 1 ELSE base + Len(M) + 2

Numbers(ints) == [i \in 1..Len(ints) |-> FromInt(ints[i])]

\* The heap of a caller that holds the matrix M and the vector v: the rows
\* of M, the Mat of M, and v.
CallerHeap(M, v, share) ==
    [i \in 1..Len(M) |-> Numbers(M[i])] \o <<RowRefs(M, 0, share)>> \o <<Numbers(v)>>

\* The matrices given to matSub: up to two rows of one or two entries each,
\* not all of the same length.
SubEntries == {1, 2}

SubRows == UNION { [1..n -> SubEntries] : n \in 1..2 }

SubMats == UNION { [1..n -> SubRows] : n \in 0..2 }

\* A call of the kernel: job.A and job.b are the references given as first and
\* second argument, job.heap is the heap of the caller when it makes the call.

\* A caller is about to call solveLinearSystem(A, b).
PoseSolve(M, v, share) ==
    /\ job = NoJob
    /\ mem' = CallerHeap(M, v, share)
    /\ job' = [op |-> "solve", A |-> Len(M) + 1, b |-> VecRef(M, v, 0, share),
               heap |-> CallerHeap(M, v, share)]
    /\ UNCHANGED <<res, uiVars, engineVars>>

\* A caller is about to call solveLinearSystem(identity(n), b).
PoseSolveIdentity(n, v) ==
    /\ job = NoJob
    /\ \E I \in {identity(<<Numbers(v)>>, n)} :
          /\ mem' = I.mem
          /\ job' = [op |-> "solve", A |-> I.val, b |-> 1, heap |-> I.mem]
    /\ UNCHANGED <<res, uiVars, engineVars>>

\* A caller is about to call matSub(A, B).
PoseSub(M, N) ==
    /\ job = NoJob
    /\ \E first \in {AllocMat(<<>>, [i \in 1..Len(M) |-> Numbers(M[i])])} :
       \E second \in {AllocMat(first.mem, [i \in 1..Len(N) |-> Numbers(N[i])])} :
          /\ mem' = second.mem
          /\ job' = [op |-> "sub", A |-> first.ref, b |-> second.ref, heap |-> second.mem]
    /\ UNCHANGED <<res, uiVars, engineVars>>

\* The call is made and runs to its end.
CallKernel ==
    /\ job # NoJob
    /\ res = NoResult
    /\ \E outcome \in {IF job.op = "solve" THEN solveLinearSystem(mem, job.A, job.b)
                       ELSE matSub(mem, job.A, job.b)} :
          /\ mem' = outcome.mem
          /\ res' = [done |-> TRUE, ok |-> outcome.ok, val |-> outcome.val,
                     err |-> outcome.err, col |-> outcome.col]
    /\ UNCHANGED <<job, uiVars, engineVars>>

\* The caller is done with the result.
ForgetKernel ==
    /\ res # NoResult
    /\ mem' = <<>>
    /\ job' = NoJob
    /\ res' = NoResult
    /\ UNCHANGED <<uiVars, engineVars>>

NextSolve ==
    \/ \E n \in Dims :
          \E M \in SquareMats(n), v \in VecsFor(n), share \in BOOLEAN : PoseSolve(M, v, share)
    \/ \E n \in Dims : \E v \in Vecs(n) : PoseSolveIdentity(n, v)
    \/ \E M \in SubMats, N \in SubMats : PoseSub(M, N)
    \/ CallKernel
    \/ ForgetKernel

SpecSolve == Init /\ [][NextSolve]_vars

\* ------------------------------------------------------------------------
\* Properties of the matrix kernel
\* ------------------------------------------------------------------------

\* The matrix and the vector the caller gave, and the vector returned.
GivenRows == Rows(job.heap, job.A)

GivenVec == job.heap[job.b]

Solution == mem[res.val]

\* The integer whose number is x.
IntOf(x) == CHOOSE k \in (-MaxEntry - 1)..(MaxEntry + 1) : FromInt(k) = x

\* The determinant of a matrix of integers of dimension 0, 1 or 2.
Det(M) ==
    CASE Len(M) = 0 -> 1
      [] Len(M) = 1 -> IntOf(M[1][1])
      [] Len(M) = 2 -> IntOf(M[1][1]) * IntOf(M[2][2]) - IntOf(M[1][2]) * IntOf(M[2][1])

\* The first column of a singular matrix that is a linear combination of the
\* columns before it: the first if it is zero, else the second.
FirstDependentColumn(M) ==
    IF \A i \in 1..Len(M) : IntOf(M[i][1]) = 0 THEN 1 ELSE 2

\* row[j] * x[j] + ... + row[n] * x[n] as a real number.
RECURSIVE RowTimes(_, _, _)
RowTimes(row, x, j) ==
    IF j > Len(row) THEN Zero(FALSE)
    ELSE realSum(realProduct(row[j], x[j]), RowTimes(row, x, j + 1))

\* (A x - b)[i] as a real number, for the A and b given and the x returned.
Residual(i) == realSum(RowTimes(GivenRows[i], Solution, 1), negate(GivenVec[i]))

\* 1e-9
OneBillionth ==
    [nan |-> FALSE, neg |-> FALSE, man |-> <<5781, 8347, 8382, 1099>>, exp |-> -82]

\* solveLinearSystem(A, b) has been called with a non-singular A and a b of
\* the length of A.
SolvedRegular ==
    /\ res.done
    /\ job.op = "solve"
    /\ Len(GivenVec) = Len(GivenRows)
    /\ Det(GivenRows) # 0

\* C6 as stated: for a non-singular A and a b of the same dimension,
\* solve(A, b) returns a vector x of length n with A x = b in every component.
SolvesExactly ==
    SolvedRegular =>
        /\ res.ok
        /\ Len(Solution) = Len(GivenRows)
        /\ \A i \in 1..Len(GivenRows) : Residual(i).man = <<>>

\* C6, amended: for a non-singular A and a b of the same dimension,
\* solve(A, b) returns a vector x of length n with |A x - b| <= 1e-9 in every
\* component, and solve(identity(n), b) returns b itself.
SolvesWithinTolerance ==
    SolvedRegular =>
        /\ res.ok
        /\ Len(Solution) = Len(GivenRows)
        /\ \A i \in 1..Len(GivenRows) : ~less(OneBillionth, abs(Residual(i)))
        /\ GivenRows = Rows(identity(<<>>, Len(GivenRows)).mem,
                            identity(<<>>, Len(GivenRows)).val)
              => \A i \in 1..Len(GivenRows) : equals(Solution[i], GivenVec[i])

\* A system of dimension 2 was solved after a swap of its rows, and the
\* vector returned is not the solution to the last bit.
SolvesWithinTolerance_witness ==
    /\ SolvedRegular
    /\ res.ok
    /\ Len(GivenRows) = 2
    /\ less(abs(GivenRows[1][1]), abs(GivenRows[2][1]))
    /\ \E i \in 1..2 : Residual(i).man # <<>>

\* solveLinearSystem(A, b) has been called with a singular A and a b of the
\* length of A.
SolvedSingular ==
    /\ res.done
    /\ job.op = "solve"
    /\ Len(GivenVec) = Len(GivenRows)
    /\ Det(GivenRows) = 0

SolveKeepsArguments ==
    (res.done /\ job.op = "solve") =>
        /\ Len(mem) >= Len(job.heap)
        /\ SubSeq(mem, 1, Len(job.heap)) = job.heap

\* A system was solved with a swap of rows and an elimination, for a caller
\* whose b is the array of the first row of A.
SolveKeepsArguments_witness ==
    /\ SolvedRegular
    /\ res.ok
    /\ Len(GivenRows) = 2
    /\ job.b = job.heap[job.A][1]
    /\ less(abs(GivenRows[1][1]), abs(GivenRows[2][1]))
    /\ IntOf(GivenRows[1][1]) # 0

\* The rows of a Mat of the caller, by length.
Shape(A) == [i \in 1..Len(job.heap[A]) |-> Len(job.heap[job.heap[A][i]])]

\* C8: matSub(A, B) fails with the error of a shape mismatch whenever A and B
\* differ in the number of rows or in the length of any row.
SubtractRejectsMismatch ==
    (res.done /\ job.op = "sub" /\ Shape(job.A) # Shape(job.b)) =>
        (~res.ok /\ res.err = "Matrix shape mismatch")

====
